---------------------------- MODULE Spec2Model ----------------------------
(***************************************************************************)
(* Model of the geodesy package: the frozen dataclasses Ellipsoid          *)
(* (ellipsoid.py), HelmertParameters and Datum (datum.py), the derived     *)
(* Ellipsoid properties computed through functools.cached_property, the    *)
(* dataclass-generated __eq__, __hash__ and __setattr__, and the urn       *)
(* strings.                                                                *)
(*                                                                         *)
(* Python floats are IEEE-754 binary floating point, rounded to nearest,   *)
(* ties to even.  The model keeps that arithmetic and scales the format    *)
(* down: Prec significand bits (53 in binary64) and a smallest subnormal   *)
(* of 2^-MinExp (2^-1074 in binary64).  A float is the integer count of    *)
(* smallest subnormals it holds, so 1.0 is One = 2^MinExp.                 *)
(***************************************************************************)
EXTENDS Integers, Sequences, FiniteSets, TLC

VARIABLES
    ell,     \* Ellipsoid instances: id -> stored fields (name, code, a, f, remarks)
    cache,   \* id -> the entries cached_property added to the instance __dict__
    dat,     \* Datum instances: id -> (name, code, ellipsoid, to_wgs84, remarks)
    ret,     \* outcome of the last operation of the sequential caller
    frames,  \* thread -> call stack of cached_property.__get__ activations
    tret     \* thread -> outcome of the thread's last attribute read

vars == <<ell, cache, dat, ret, frames, tret>>

---------------------------------------------------------------------------
(* Bounds of the model. *)

Prec == 5        \* significand bits of the float format
MinExp == 12     \* the smallest positive float is 2^-MinExp
NThreads == 2    \* threads reading one Ellipsoid concurrently
TolUlps == 8     \* tolerance of the e2 round trip, in units of 2^-Prec

---------------------------------------------------------------------------
(* Floating point: round to nearest, ties to even. *)

RECURSIVE Pow2(_)
Pow2(k) == IF k <= 0 THEN 1 ELSE 2 * Pow2(k - 1)

RECURSIVE BitLen(_)
BitLen(n) == IF n <= 0 THEN 0 ELSE 1 + BitLen(n \div 2)

Abs(x) == IF x < 0 THEN -x ELSE x

Sign(x) == IF x < 0 THEN -1 ELSE 1

One == Pow2(MinExp)

\* Spacing of the floats in the binade of magnitude n (1 in the subnormal range).
Quantum(n) == Pow2(BitLen(n) - Prec)

IsFloat(n) == Abs(n) % Quantum(Abs(n)) = 0

\* The float nearest to the exact quotient num / den (den > 0), ties to even.
RoundNearestEven(num, den) ==
    LET mag == Abs(num)
        q   == Quantum(mag \div den)
        d   == den * q
        lo  == mag \div d
        r   == mag % d
        m   == IF 2 * r < d THEN lo
               ELSE IF 2 * r > d THEN lo + 1
               ELSE IF lo % 2 = 0 THEN lo ELSE lo + 1
    IN Sign(num) * m * q

FSub(x, y) == RoundNearestEven(x - y, 1)

FMul(x, y) == RoundNearestEven(x * y, One)

FDiv(x, y) == RoundNearestEven(Sign(y) * x * One, Abs(y))

\* floor(sqrt(n)), one result bit per step, from bit weight w down.
RECURSIVE ISqrtFrom(_, _, _)
ISqrtFrom(n, w, acc) ==
    IF w = 0 THEN acc
    ELSE IF (acc + w) * (acc + w) <= n THEN ISqrtFrom(n, w \div 2, acc + w)
    ELSE ISqrtFrom(n, w \div 2, acc)

ISqrt(n) == ISqrtFrom(n, Pow2(BitLen(n) \div 2), 0)

\* x ** 0.5 for x >= 0: the float nearest to the square root.
FSqrt(x) ==
    LET n  == x * One
        s  == ISqrt(n)
        q  == Quantum(s)
        lo == (s \div q) * q
        t  == 2 * lo + q            \* twice the midpoint of lo and lo + q
    IN IF 4 * n < t * t THEN lo
       ELSE IF 4 * n > t * t THEN lo + q
       ELSE IF (lo \div q) % 2 = 0 THEN lo ELSE lo + q

---------------------------------------------------------------------------
(* Outcomes of a call. *)

NoExc == "none"

Return(v) == [exc |-> NoExc, val |-> v]

Raise(x) == [exc |-> x, val |-> 0]

---------------------------------------------------------------------------
(* Ellipsoid: the bodies of the derived properties. *)

\* A variant: self.a * (1 - self.f**2)
Ellipsoid_b_squared(a, f) == Return(FMul(a, FSub(One, FMul(f, f))))

\* self.a * (1 - self.f)
Ellipsoid_b(a, f) == Return(FMul(a, FSub(One, f)))

\* A variant: 2 * self.f + self.f**2
Ellipsoid_e2_plus(f) == Return(RoundNearestEven(FMul(2 * One, f) + FMul(f, f), 1))

\* 2 * self.f - self.f**2
Ellipsoid_e2(f) == Return(FSub(FMul(2 * One, f), FMul(f, f)))

\* The complex number a negative float raised to the power 0.5 is: its real
\* part is a rounding residue next to 0, its imaginary part the root of -x.
Complex(im) == [re |-> 0, im |-> im]

\* self.e2**0.5
Ellipsoid_e(e2v) == IF e2v < 0 THEN Return(Complex(FSqrt(-e2v))) ELSE Return(FSqrt(e2v))

\* A variant: 1 / (1 - self.e2)
Ellipsoid_ep2_inverse(x, y) ==
    LET d == FSub(One, y)
    IN IF d = 0 THEN Raise("ZeroDivisionError") ELSE Return(FDiv(One, d))

\* self.e2 / (1 - self.e2): x is the first read of self.e2, y the second
Ellipsoid_ep2(x, y) ==
    LET d == FSub(One, y)
    IN IF d = 0 THEN Raise("ZeroDivisionError") ELSE Return(FDiv(x, d))


---------------------------------------------------------------------------
(* The urn strings.  A string is a sequence of one-character strings. *)

EllipsoidUrnPrefix ==
    <<"u","r","n",":","o","g","c",":","d","e","f",":",
      "e","l","l","i","p","s","o","i","d",":","E","P","S","G",":",":">>

DatumUrnPrefix ==
    <<"u","r","n",":","o","g","c",":","d","e","f",":",
      "d","a","t","u","m",":","E","P","S","G",":",":">>

DigitChars == <<"0","1","2","3","4","5","6","7","8","9">>

\* str(n) for n >= 0
RECURSIVE NatToStr(_)
NatToStr(n) ==
    IF n < 10 THEN <<DigitChars[n + 1]>>
    ELSE NatToStr(n \div 10) \o <<DigitChars[(n % 10) + 1]>>

\* A variant: "{self.code:05d}", the code padded with zeros to five digits
IntToStr_padded(n) ==
    LET digits == NatToStr(IF n < 0 THEN -n ELSE n)
        pad == [k \in 1..(IF Len(digits) < 5 THEN 5 - Len(digits) ELSE 0) |-> "0"]
    IN (IF n < 0 THEN <<"-">> ELSE <<>>) \o pad \o digits

\* The "{self.code}" replacement field of the f-strings: str(int)
IntToStr(n) == IF n < 0 THEN <<"-">> \o NatToStr(-n) ELSE NatToStr(n)

\* f"urn:ogc:def:ellipsoid:EPSG::{self.code}"
Ellipsoid_urn(code) == Return(EllipsoidUrnPrefix \o IntToStr(code))

\* f"urn:ogc:def:datum:EPSG::{self.code}"
Datum_urn(code) == Return(DatumUrnPrefix \o IntToStr(code))

---------------------------------------------------------------------------
(* functools.cached_property on Ellipsoid.  The instance __dict__ entries  *)
(* it adds are kept apart from the stored fields: d[attr] is <<>> while    *)
(* attr is not cached and <<v>> once v is.                                 *)

Attrs == {"b", "e2", "e", "ep2", "urn"}

NumAttrs == {"b", "e2", "e", "ep2"}

EmptyDict == [attr \in Attrs |-> <<>>]

\* The reads of self.e2 a property body makes, in evaluation order.
Deps(attr) ==
    CASE attr = "e"   -> <<"e2">>
      [] attr = "ep2" -> <<"e2", "e2">>
      [] OTHER        -> <<>>

\* self.func(instance): args are the values the reads of Deps(attr) returned.
Body(attr, self, args) ==
    CASE attr = "b"   -> Ellipsoid_b(self.a, self.f)
      [] attr = "e2"  -> Ellipsoid_e2(self.f)
      [] attr = "e"   -> Ellipsoid_e(args[1])
      [] attr = "ep2" -> Ellipsoid_ep2(args[1], args[2])
      [] attr = "urn" -> Ellipsoid_urn(self.code)

\* A variant: the store replaces the dictionary by one that holds val alone
CacheStore_alone(d, attr, val) == [EmptyDict EXCEPT ![attr] = <<val>>]

\* cache[self.attrname] = val
CacheStore(d, attr, val) == [d EXCEPT ![attr] = <<val>>]

RECURSIVE cached_property_get(_, _, _)
RECURSIVE ReadDeps(_, _, _, _)

\* The nested property reads of a body, left to right, each through the cache.
ReadDeps(deps, self, d, args) ==
    IF deps = <<>> THEN [dict |-> d, exc |-> NoExc, args |-> args]
    ELSE LET r == cached_property_get(Head(deps), self, d)
         IN IF r.exc # NoExc THEN [dict |-> r.dict, exc |-> r.exc, args |-> args]
            ELSE ReadDeps(Tail(deps), self, r.dict, Append(args, r.val))

\* cached_property.__get__ run to completion by one caller: a cached value is
\* returned as it is; otherwise the body runs, its value is stored and returned;
\* a body that raises stores nothing.
cached_property_get(attr, self, d) ==
    IF d[attr] # <<>> THEN [dict |-> d, exc |-> NoExc, val |-> d[attr][1]]
    ELSE LET r == ReadDeps(Deps(attr), self, d, <<>>)
             out == Body(attr, self, r.args)
         IN IF r.exc # NoExc THEN [dict |-> r.dict, exc |-> r.exc, val |-> 0]
            ELSE IF out.exc # NoExc THEN [dict |-> r.dict, exc |-> out.exc, val |-> 0]
            ELSE [dict |-> CacheStore(r.dict, attr, out.val), exc |-> NoExc, val |-> out.val]

---------------------------------------------------------------------------
(* Object references.  An Ellipsoid or Datum is named by its instance id;  *)
(* a HelmertParameters by the id of the Datum whose to_wgs84 holds it.     *)
(* None is <<>> and a present optional value v is <<v>>.                   *)

Ref(kind, id) == [kind |-> kind, id |-> id]

EllipsoidFields == <<"name", "code", "a", "f", "remarks">>

HelmertFields == <<"tx", "ty", "tz", "rx", "ry", "rz", "s">>

DatumFields == <<"name", "code", "ellipsoid", "to_wgs84", "remarks">>

FieldsOf(kind) ==
    CASE kind = "Ellipsoid" -> EllipsoidFields
      [] kind = "Helmert"   -> HelmertFields
      [] kind = "Datum"     -> DatumFields

\* The stored fields of the object x refers to.
Stored(x) ==
    CASE x.kind = "Ellipsoid" -> ell[x.id]
      [] x.kind = "Datum"     -> dat[x.id]
      [] x.kind = "Helmert"   -> dat[x.id].to_wgs84[1]

\* The live objects.
Refs ==
    {Ref("Ellipsoid", i) : i \in DOMAIN ell} \cup {Ref("Datum", j) : j \in DOMAIN dat}
    \cup {Ref("Helmert", j) : j \in {k \in DOMAIN dat : dat[k].to_wgs84 # <<>>}}

\* (self.f1, self.f2, ...): the tuple of the fields, in declaration order
AsTuple(rec, fields) == [k \in 1..Len(fields) |-> rec[fields[k]]]

---------------------------------------------------------------------------
(* __eq__ as @dataclass generates it: same class and equal field tuples.   *)
(* Only the declared fields take part; the __dict__ entries of             *)
(* cached_property are no fields.                                          *)

\* A variant: the whole instance __dict__ takes part, cached entries included
Ellipsoid__eq__with_dict(x, y) ==
    /\ AsTuple(ell[x], EllipsoidFields) = AsTuple(ell[y], EllipsoidFields)
    /\ cache[x] = cache[y]

Ellipsoid__eq__(x, y) ==
    AsTuple(ell[x], EllipsoidFields) = AsTuple(ell[y], EllipsoidFields)

HelmertParameters__eq__(x, y) == AsTuple(x, HelmertFields) = AsTuple(y, HelmertFields)

\* A variant: the ellipsoid compared by identity only
Datum__eq__identity(x, y) ==
    /\ dat[x].name = dat[y].name
    /\ dat[x].code = dat[y].code
    /\ dat[x].ellipsoid = dat[y].ellipsoid
    /\ \/ dat[x].to_wgs84 = <<>> /\ dat[y].to_wgs84 = <<>>
       \/ /\ dat[x].to_wgs84 # <<>>
          /\ dat[y].to_wgs84 # <<>>
          /\ HelmertParameters__eq__(dat[x].to_wgs84[1], dat[y].to_wgs84[1])
    /\ dat[x].remarks = dat[y].remarks

\* Elements of the field tuples are compared by identity first, then by ==.
Datum__eq__(x, y) ==
    /\ dat[x].name = dat[y].name
    /\ dat[x].code = dat[y].code
    /\ \/ dat[x].ellipsoid = dat[y].ellipsoid
       \/ Ellipsoid__eq__(dat[x].ellipsoid, dat[y].ellipsoid)
    /\ \/ dat[x].to_wgs84 = <<>> /\ dat[y].to_wgs84 = <<>>
       \/ /\ dat[x].to_wgs84 # <<>>
          /\ dat[y].to_wgs84 # <<>>
          /\ HelmertParameters__eq__(dat[x].to_wgs84[1], dat[y].to_wgs84[1])
    /\ dat[x].remarks = dat[y].remarks

\* x == y for two references of one kind
PyEq(x, y) ==
    CASE x.kind = "Ellipsoid" -> Ellipsoid__eq__(x.id, y.id)
      [] x.kind = "Datum"     -> Datum__eq__(x.id, y.id)
      [] x.kind = "Helmert"   -> HelmertParameters__eq__(Stored(x), Stored(y))

---------------------------------------------------------------------------
(* __hash__ as @dataclass(frozen=True) generates it: the hash of the field *)
(* tuple.  Hashes are reduced modulo HashMod (2^61 - 1 in CPython).        *)

HashMod == 1009

StrHash(s) ==
    CASE s = "Test"  -> 424
      [] s = "Other" -> 77
      [] s = "Test remarks" -> 903
      [] OTHER -> 5

NoneHash == 333

OptStrHash(o) == IF o = <<>> THEN NoneHash ELSE StrHash(o[1])

NumHash(n) == n % HashMod

\* hash(tuple): a fold over the hashes of the elements
RECURSIVE TupleHash(_, _)
TupleHash(hs, acc) ==
    IF hs = <<>> THEN acc
    ELSE TupleHash(Tail(hs), (acc * 31 + Head(hs)) % HashMod)

\* A variant: object.__hash__, which follows the identity of the instance
Ellipsoid__hash__identity(x) == NumHash(16 * x)

Ellipsoid__hash__(x) ==
    TupleHash(<<StrHash(ell[x].name), NumHash(ell[x].code), NumHash(ell[x].a),
                NumHash(ell[x].f), OptStrHash(ell[x].remarks)>>, 1)

HelmertParameters__hash__(h) ==
    TupleHash([k \in 1..Len(HelmertFields) |-> NumHash(h[HelmertFields[k]])], 1)

Datum__hash__(x) ==
    TupleHash(<<StrHash(dat[x].name), NumHash(dat[x].code),
                Ellipsoid__hash__(dat[x].ellipsoid),
                IF dat[x].to_wgs84 = <<>> THEN NoneHash
                ELSE HelmertParameters__hash__(dat[x].to_wgs84[1]),
                OptStrHash(dat[x].remarks)>>, 1)

PyHash(x) ==
    CASE x.kind = "Ellipsoid" -> Ellipsoid__hash__(x.id)
      [] x.kind = "Datum"     -> Datum__hash__(x.id)
      [] x.kind = "Helmert"   -> HelmertParameters__hash__(Stored(x))

\* set.add: x is dropped when an element with its hash is x itself or equals x
SetAdd(S, x) ==
    IF \E y \in S : PyHash(y) = PyHash(x) /\ (y = x \/ PyEq(y, x)) THEN S ELSE S \cup {x}

\* The set display {x, y}
SetOf(x, y) == SetAdd(SetAdd({}, x), y)

---------------------------------------------------------------------------
(* __setattr__ as @dataclass(frozen=True) generates it: it raises          *)
(* FrozenInstanceError for every instance of the class and assigns nothing.*)

\* A variant: object.__setattr__, the assignment of a class that is not frozen
Plain__setattr__(rec, name, value) == [exc |-> NoExc, rec |-> [rec EXCEPT ![name] = value]]

Frozen__setattr__(rec, name, value) == [exc |-> "FrozenInstanceError", rec |-> rec]

---------------------------------------------------------------------------
(* Operations of a sequential caller.  ret records the last one: what was  *)
(* done, on which object, and what it returned or raised.                  *)

Outcome(op, obj, attr, exc, val) ==
    [op |-> op, obj |-> obj, attr |-> attr, exc |-> exc, val |-> val]

NoOutcome == Outcome("new", <<>>, "", NoExc, 0)

\* ellipsoid.b, .e2, .e, .ep2 or .urn
Read(i, attr) ==
    LET r == cached_property_get(attr, ell[i], cache[i])
    IN /\ cache' = [cache EXCEPT ![i] = r.dict]
       /\ ret' = Outcome("read", Ref("Ellipsoid", i), attr, r.exc, r.val)
       /\ UNCHANGED <<ell, dat, frames, tret>>

\* datum.urn: a plain property, computed on every read
ReadDatumUrn(j) ==
    LET r == Datum_urn(dat[j].code)
    IN /\ ret' = Outcome("read", Ref("Datum", j), "urn", r.exc, r.val)
       /\ UNCHANGED <<ell, cache, dat, frames, tret>>

\* x == y
Compare(x, y) ==
    /\ ret' = Outcome("eq", <<x, y>>, "", NoExc, PyEq(x, y))
    /\ UNCHANGED <<ell, cache, dat, frames, tret>>

\* hash(x)
Hash(x) ==
    /\ ret' = Outcome("hash", x, "", NoExc, PyHash(x))
    /\ UNCHANGED <<ell, cache, dat, frames, tret>>

\* len({x, y})
MakeSet(x, y) ==
    /\ ret' = Outcome("set", <<x, y>>, "", NoExc, Cardinality(SetOf(x, y)))
    /\ UNCHANGED <<ell, cache, dat, frames, tret>>

\* x.name = value
SetAttr(x, name, value) ==
    LET r == Frozen__setattr__(Stored(x), name, value)
    IN /\ ret' = Outcome("setattr", <<>>, "", r.exc, 0)
       /\ CASE x.kind = "Ellipsoid" ->
                 ell' = [ell EXCEPT ![x.id] = r.rec] /\ UNCHANGED dat
            [] x.kind = "Datum" ->
                 dat' = [dat EXCEPT ![x.id] = r.rec] /\ UNCHANGED ell
            [] x.kind = "Helmert" ->
                 dat' = [dat EXCEPT ![x.id].to_wgs84 = <<r.rec>>] /\ UNCHANGED ell
       /\ UNCHANGED <<cache, frames, tret>>

---------------------------------------------------------------------------
(* Values the instances of the model are built from. *)

Names == {"Test", "Other"}

Remarks == {<<>>, <<"Test remarks">>}

EllipsoidCodes == {7030, 1234, 9}

DatumCodes == {6326, 9999, 100}

\* Flattenings of the object model: a sphere, an ordinary one, and one so
\* close to 1 that e2 rounds to 1.
ObjF == {0, One \div 4, One - Pow2(MinExp - Prec)}

ObjA == {One, 3 * One}

HelmertValues == {One, -One \div 2}

Ellipsoid0 ==
    [name |-> "Test", code |-> 7030, a |-> 3 * One, f |-> One \div 4, remarks |-> <<>>]

Helmert0 ==
    [tx |-> One, ty |-> -One \div 2, tz |-> One, rx |-> One, ry |-> -One \div 2,
     rz |-> One, s |-> -One \div 2]

Datum0 ==
    [name |-> "Test", code |-> 6326, ellipsoid |-> 1, to_wgs84 |-> <<Helmert0>>,
     remarks |-> <<>>]

\* The values a field may hold.
FieldValues(kind, name) ==
    CASE kind = "Helmert" -> HelmertValues
      [] name = "name" -> Names
      [] name = "remarks" -> Remarks
      [] name = "a" -> ObjA
      [] name = "f" -> ObjF
      [] name = "ellipsoid" -> {1, 2}
      [] name = "to_wgs84" -> {<<>>, <<Helmert0>>}
      [] kind = "Ellipsoid" /\ name = "code" -> EllipsoidCodes
      [] kind = "Datum" /\ name = "code" -> DatumCodes

\* The records that differ from rec in exactly one field.
Variants(rec, kind) ==
    UNION {{[rec EXCEPT ![FieldsOf(kind)[k]] = v] :
                v \in FieldValues(kind, FieldsOf(kind)[k]) \ {rec[FieldsOf(kind)[k]]}} :
           k \in 1..Len(FieldsOf(kind))}

\* Datum0 with another to_wgs84: None, or parameters that differ in one field.
HelmertVariants ==
    {[Datum0 EXCEPT !.to_wgs84 = <<h>>] : h \in Variants(Helmert0, "Helmert")}

---------------------------------------------------------------------------
(* Two Ellipsoids: the second is a copy of the first (a distinct instance  *)
(* with the same fields) or differs from it in one field.                  *)

\* x.<field> = v for every field of x and every value the field may hold
SetAnyAttr(x) ==
    \E k \in 1..Len(FieldsOf(x.kind)) :
        \E v \in FieldValues(x.kind, FieldsOf(x.kind)[k]) :
            SetAttr(x, FieldsOf(x.kind)[k], v)

\* Two distinct references of one kind, each pair once.
Pair(x, y) == x.kind = y.kind /\ x.id < y.id

Init ==
    /\ \E e \in {Ellipsoid0} \cup Variants(Ellipsoid0, "Ellipsoid") :
          ell = <<Ellipsoid0, e>>
    /\ cache = [i \in DOMAIN ell |-> EmptyDict]
    /\ dat = <<>>
    /\ ret = NoOutcome
    /\ frames = <<>>
    /\ tret = <<>>

Next ==
    \/ \E i \in DOMAIN ell, attr \in Attrs : Read(i, attr)
    \/ \E x \in Refs, y \in Refs : Pair(x, y) /\ Compare(x, y)
    \/ \E x \in Refs : Hash(x)
    \/ \E x \in Refs, y \in Refs : Pair(x, y) /\ MakeSet(x, y)
    \/ \E x \in Refs : SetAnyAttr(x)

Spec == Init /\ [][Next]_vars

---------------------------------------------------------------------------
(* Two Datums over two Ellipsoids.  The second Datum is the first with its *)
(* own Ellipsoid instance (a copy of the first Ellipsoid or a variant of   *)
(* it), or shares the Ellipsoid and is a copy or differs in one field.     *)

\* The derived properties the caller of this scenario reads.
DatumReadAttrs == {"e", "urn"}

InitDatum ==
    /\ \E e \in {Ellipsoid0} \cup Variants(Ellipsoid0, "Ellipsoid") :
          ell = <<Ellipsoid0, e>>
    /\ \E d \in Variants(Datum0, "Datum") \cup HelmertVariants \cup {Datum0} :
          /\ dat = <<Datum0, d>>
          /\ ell[2] = Ellipsoid0 \/ d = [Datum0 EXCEPT !.ellipsoid = 2]
    /\ cache = [i \in DOMAIN ell |-> EmptyDict]
    /\ ret = NoOutcome
    /\ frames = <<>>
    /\ tret = <<>>

NextDatum ==
    \/ \E i \in DOMAIN ell, attr \in DatumReadAttrs : Read(i, attr)
    \/ \E j \in DOMAIN dat : ReadDatumUrn(j)
    \/ \E x \in Refs, y \in Refs : Pair(x, y) /\ Compare(x, y)
    \/ \E x \in Refs : Hash(x)
    \/ \E x \in Refs, y \in Refs : Pair(x, y) /\ MakeSet(x, y)
    \/ \E x \in Refs : SetAnyAttr(x)

SpecDatum == InitDatum /\ [][NextDatum]_vars

---------------------------------------------------------------------------
(* The derived properties as pure functions: one Ellipsoid, its a and f    *)
(* drawn from the floats of the format, read in any order.                 *)

MinNormal == Pow2(Prec - 1)

\* Every float of [0, 1).
NumF == {n \in 0..(One - 1) : IsFloat(n)}

\* Subnormal, smallest normal and ordinary semi-major axes.
NumA ==
    {1, 3, MinNormal - 1, MinNormal, MinNormal + 1, 2 * MinNormal - 1, 2 * MinNormal,
     3 * MinNormal, 7 * MinNormal}

InitNum ==
    /\ \E a \in NumA, f \in NumF : ell = <<[Ellipsoid0 EXCEPT !.a = a, !.f = f]>>
    /\ cache = <<EmptyDict>>
    /\ dat = <<>>
    /\ ret = NoOutcome
    /\ frames = <<>>
    /\ tret = <<>>

NextNum == \E attr \in NumAttrs : Read(1, attr)

SpecNum == InitNum /\ [][NextNum]_vars

---------------------------------------------------------------------------
(* Threads reading the derived properties of one Ellipsoid with no lock.   *)
(* cached_property.__get__ is three steps a thread switch may separate:    *)
(* the lookup cache.get(attrname), the call self.func(instance), and the   *)
(* store cache[attrname] = val.  A body that reads self.e2 calls __get__   *)
(* again, on top of its own activation.                                    *)

Threads == 1..NThreads

Frame(attr) == [attr |-> attr, pc |-> "lookup", args |-> <<>>, val |-> 0]

Top(t) == frames[t][Len(frames[t])]

SetTop(t, fr) == [frames EXCEPT ![t] = [@ EXCEPT ![Len(@)] = fr]]

NoRead == [op |-> "none", attr |-> "", exc |-> NoExc, val |-> 0]

\* return val: to the body that made the read, or to the thread's own caller
ReturnValue(t, val) ==
    IF Len(frames[t]) = 1
    THEN /\ frames' = [frames EXCEPT ![t] = <<>>]
         /\ tret' = [tret EXCEPT ![t] =
                        [op |-> "read", attr |-> Top(t).attr, exc |-> NoExc, val |-> val]]
    ELSE /\ frames' = [frames EXCEPT ![t] =
                          LET up == SubSeq(@, 1, Len(@) - 1)
                          IN [up EXCEPT ![Len(up)].args = Append(@, val)]]
         /\ UNCHANGED tret

\* The thread starts to read ellipsoid.<attr>.
Call(t, attr) ==
    /\ frames[t] = <<>>
    /\ frames' = [frames EXCEPT ![t] = <<Frame(attr)>>]
    /\ tret' = [tret EXCEPT ![t] = NoRead]
    /\ UNCHANGED <<ell, cache, dat, ret>>

\* ellipsoid.a or ellipsoid.f: a stored field, read in one step
ReadField(t, name) ==
    /\ frames[t] = <<>>
    /\ tret' = [tret EXCEPT ![t] =
                   [op |-> "field", attr |-> name, exc |-> NoExc, val |-> ell[1][name]]]
    /\ UNCHANGED <<ell, cache, dat, ret, frames>>

\* A variant: a miss leaves a placeholder in the cache before the body runs
Lookup_placeholder(t) ==
    /\ frames[t] # <<>>
    /\ Top(t).pc = "lookup"
    /\ IF cache[1][Top(t).attr] # <<>>
       THEN ReturnValue(t, cache[1][Top(t).attr][1]) /\ UNCHANGED cache
       ELSE /\ frames' = SetTop(t, [Top(t) EXCEPT !.pc = "body"])
            /\ cache' = [cache EXCEPT ![1] = CacheStore(@, Top(t).attr, 0)]
            /\ UNCHANGED tret
    /\ UNCHANGED <<ell, dat, ret>>

\* val = cache.get(self.attrname, _NOT_FOUND)
Lookup(t) ==
    /\ frames[t] # <<>>
    /\ Top(t).pc = "lookup"
    /\ IF cache[1][Top(t).attr] # <<>>
       THEN ReturnValue(t, cache[1][Top(t).attr][1])
       ELSE frames' = SetTop(t, [Top(t) EXCEPT !.pc = "body"]) /\ UNCHANGED tret
    /\ UNCHANGED <<ell, cache, dat, ret>>

\* Inside self.func(instance): the next read of self.e2.
CallDep(t) ==
    /\ frames[t] # <<>>
    /\ Top(t).pc = "body"
    /\ Len(Top(t).args) < Len(Deps(Top(t).attr))
    /\ frames' = [frames EXCEPT ![t] =
                     Append(@, Frame(Deps(Top(t).attr)[Len(Top(t).args) + 1]))]
    /\ UNCHANGED <<ell, cache, dat, ret, tret>>

\* Inside self.func(instance): the arithmetic.  An exception leaves every
\* activation of the thread and reaches its caller.
Compute(t) ==
    /\ frames[t] # <<>>
    /\ Top(t).pc = "body"
    /\ Len(Top(t).args) = Len(Deps(Top(t).attr))
    /\ LET out == Body(Top(t).attr, ell[1], Top(t).args)
       IN IF out.exc # NoExc
          THEN /\ frames' = [frames EXCEPT ![t] = <<>>]
               /\ tret' = [tret EXCEPT ![t] =
                              [op |-> "read", attr |-> frames[t][1].attr,
                               exc |-> out.exc, val |-> 0]]
          ELSE /\ frames' = SetTop(t, [Top(t) EXCEPT !.pc = "store", !.val = out.val])
               /\ UNCHANGED tret
    /\ UNCHANGED <<ell, cache, dat, ret>>

\* cache[self.attrname] = val; return val
Store(t) ==
    /\ frames[t] # <<>>
    /\ Top(t).pc = "store"
    /\ cache' = [cache EXCEPT ![1] = CacheStore(@, Top(t).attr, Top(t).val)]
    /\ ReturnValue(t, Top(t).val)
    /\ UNCHANGED <<ell, dat, ret>>

InitThreads ==
    /\ \E f \in ObjF : ell = <<[Ellipsoid0 EXCEPT !.f = f]>>
    /\ cache = <<EmptyDict>>
    /\ dat = <<>>
    /\ ret = NoOutcome
    /\ frames = [t \in Threads |-> <<>>]
    /\ tret = [t \in Threads |-> NoRead]

NextThreads ==
    \E t \in Threads :
        \/ \E attr \in Attrs : Call(t, attr)
        \/ \E name \in {"a", "f"} : ReadField(t, name)
        \/ Lookup(t)
        \/ CallDep(t)
        \/ Compute(t)
        \/ Store(t)

SpecThreads == InitThreads /\ [][NextThreads]_vars

---------------------------------------------------------------------------
(* What the claims are stated with. *)

Valid(i) == ell[i].a > 0 /\ 0 <= ell[i].f /\ ell[i].f < One

Cached(i, attr) == cache[i][attr] # <<>>

Val(i, attr) == cache[i][attr][1]

\* The last operation read a numeric derived property of an Ellipsoid.
NumRead == ret.op = "read" /\ ret.obj.kind = "Ellipsoid" /\ ret.attr \in NumAttrs

\* e is the float nearest to the square root of x: sqrt(x) lies between the
\* midpoints of e and its two neighbours.
IsSqrtOf(e, x) ==
    /\ e >= 0
    /\ IsFloat(e)
    /\ LET below == IF e = 0 THEN 0 ELSE Quantum(e - 1)
       IN /\ (2 * e - below) * (2 * e - below) <= 4 * x * One
          /\ 4 * x * One <= (2 * e + Quantum(e)) * (2 * e + Quantum(e))

\* 2^-Prec, the relative spacing of the floats
Ulp == Pow2(MinExp - Prec)

---------------------------------------------------------------------------
(* C1: for a > 0 and 0 <= f < 1 each of b, e2, e, ep2 returns a value      *)
(* without error, whichever is read first, and b = a*(1-f), e2 = 2f - f^2, *)
(* e = sqrt(e2) (e >= 0, e*e = e2 up to the rounding of e) and             *)
(* ep2 = e2/(1-e2).                                                        *)

C1_AccessorsTotal ==
    (Valid(1) /\ NumRead) =>
        /\ ret.exc = NoExc
        /\ LET a  == ell[1].a
               f  == ell[1].f
               x  == FSub(FMul(2 * One, f), FMul(f, f))
           IN CASE ret.attr = "b"   -> ret.val = FMul(a, FSub(One, f))
                [] ret.attr = "e2"  -> ret.val = x
                [] ret.attr = "e"   -> IsSqrtOf(ret.val, x)
                [] ret.attr = "ep2" -> ret.val = FDiv(x, FSub(One, x))

---------------------------------------------------------------------------
(* C2, as stated: for a > 0 and 0 <= f < 1, 0 <= e2 < 1 and 0 <= b <= a,   *)
(* and b = a only when f = 0.                                              *)

C2_StrictBounds ==
    Valid(1) =>
        /\ Cached(1, "e2") => 0 <= Val(1, "e2") /\ Val(1, "e2") < One
        /\ Cached(1, "b") =>
              /\ 0 <= Val(1, "b") /\ Val(1, "b") <= ell[1].a
              /\ Val(1, "b") = ell[1].a => ell[1].f = 0

(* C2, amended: for a > 0 and 0 <= f < 1, 0 <= e2 <= 1 and 0 <= b <= a,    *)
(* and b = a when f = 0.  After rounding e2 reaches 1 for f close to 1     *)
(* (never for f <= 1/2), and b reaches a for f > 0 only when f < 2^-Prec   *)
(* (1 - f rounds to 1) or a is no larger than the smallest normal float    *)
(* (a * (1 - f) underflows).                                               *)
C2_RoundedBounds ==
    Valid(1) =>
        /\ Cached(1, "e2") =>
              /\ 0 <= Val(1, "e2") /\ Val(1, "e2") <= One
              /\ 2 * ell[1].f <= One => Val(1, "e2") < One
        /\ Cached(1, "b") =>
              /\ 0 <= Val(1, "b") /\ Val(1, "b") <= ell[1].a
              /\ ell[1].f = 0 => Val(1, "b") = ell[1].a
              /\ (Val(1, "b") = ell[1].a /\ ell[1].f # 0) =>
                    (ell[1].f < Ulp \/ ell[1].a <= MinNormal)

\* b and e2 have been read, f > 0, and b = a all the same.
C2_Witness ==
    /\ Valid(1) /\ Cached(1, "e2") /\ Cached(1, "b")
    /\ ell[1].f # 0 /\ Val(1, "b") = ell[1].a /\ ell[1].a > MinNormal

---------------------------------------------------------------------------
(* C7, as stated: for a > 0 and 0 <= f < 1 the e2 accessor agrees with     *)
(* (a^2 - b^2) / a^2, b from the b accessor, within tolerance.  The        *)
(* quotient is taken exactly, the tolerance is TolUlps * 2^-Prec, and both *)
(* sides are multiplied by a^2.                                            *)

EccentricityGap(i) ==
    Abs(Val(i, "e2") * ell[i].a * ell[i].a
        - One * (ell[i].a * ell[i].a - Val(i, "b") * Val(i, "b")))

C7_RoundTrip ==
    (Valid(1) /\ Cached(1, "e2") /\ Cached(1, "b")) =>
        EccentricityGap(1) <= TolUlps * Ulp * ell[1].a * ell[1].a

(* C7, amended: the same for every a that is a normal float (a at least    *)
(* the smallest normal float, so that b keeps the relative accuracy of a). *)
C7_RoundTripNormal ==
    (Valid(1) /\ ell[1].a >= MinNormal /\ Cached(1, "e2") /\ Cached(1, "b")) =>
        EccentricityGap(1) <= TolUlps * Ulp * ell[1].a * ell[1].a

\* Both accessors read on a normal a, and rounding made the two sides differ.
C7_Witness ==
    /\ Valid(1) /\ ell[1].a >= MinNormal /\ Cached(1, "e2") /\ Cached(1, "b")
    /\ EccentricityGap(1) > 0

---------------------------------------------------------------------------
(* C8: for f = 0 and any a > 0 (a sphere), b == a, e2 == 0, e == 0 and     *)
(* ep2 == 0, and no read of them fails.                                    *)

C8_Sphere ==
    (ell[1].a > 0 /\ ell[1].f = 0) =>
        /\ NumRead => ret.exc = NoExc
        /\ Cached(1, "b") => Val(1, "b") = ell[1].a
        /\ \A attr \in {"e2", "e", "ep2"} : Cached(1, attr) => Val(1, attr) = 0

\* A sphere whose four derived properties have all been read.
C8_Witness ==
    /\ ell[1].a > 0 /\ ell[1].f = 0
    /\ \A attr \in NumAttrs : Cached(1, attr)
    /\ NumRead /\ ret.attr = "ep2"

---------------------------------------------------------------------------
(* C3: two Ellipsoids with identical stored fields are equal and hash      *)
(* identically in every cache state, whatever derived properties have been *)
(* read on either side.                                                    *)

EllipsoidPair == <<Ref("Ellipsoid", 1), Ref("Ellipsoid", 2)>>

C3_EqualInEveryCacheState ==
    \A i \in DOMAIN ell, j \in DOMAIN ell :
        ell[i] = ell[j] =>
            /\ Ellipsoid__eq__(i, j)
            /\ Ellipsoid__hash__(i) = Ellipsoid__hash__(j)
            /\ (ret.op = "eq" /\ ret.obj = EllipsoidPair /\ i # j) => ret.val
            /\ (ret.op = "set" /\ ret.obj = EllipsoidPair /\ i # j) => ret.val = 1

\* Equal fields, different caches on the two sides, and the comparison made.
C3_Witness ==
    /\ ell[1] = ell[2]
    /\ Cached(1, "b") /\ ~Cached(1, "e2")
    /\ ~Cached(2, "b") /\ Cached(2, "ep2")
    /\ ret.op = "eq" /\ ret.obj = EllipsoidPair /\ ret.val

---------------------------------------------------------------------------
(* C4: for each of Ellipsoid, Datum and HelmertParameters, two values with *)
(* identical field values are equal and hash identically, so a set of both *)
(* has one element; two values that differ in a field are unequal.         *)

\* The field holds the same value in both records (an Ellipsoid held by a
\* Datum is a value too: its stored fields).
SameField(kind, name, r1, r2) ==
    IF kind = "Datum" /\ name = "ellipsoid"
    THEN ell[r1[name]] = ell[r2[name]]
    ELSE r1[name] = r2[name]

SameFields(x, y) ==
    \A k \in 1..Len(FieldsOf(x.kind)) :
        SameField(x.kind, FieldsOf(x.kind)[k], Stored(x), Stored(y))

C4_StructuralEquality ==
    \A x \in Refs, y \in Refs :
        x.kind = y.kind =>
            /\ SameFields(x, y) =>
                  /\ PyEq(x, y)
                  /\ PyHash(x) = PyHash(y)
                  /\ Cardinality(SetOf(x, y)) = 1
            /\ ~SameFields(x, y) => ~PyEq(x, y)
            /\ (ret.op = "set" /\ ret.obj = <<x, y>>) =>
                  ret.val = IF SameFields(x, y) THEN 1 ELSE 2

\* Two Datums with the same fields, put in a set of one element.
C4_Witness ==
    /\ ret.op = "set"
    /\ ret.obj = <<Ref("Datum", 1), Ref("Datum", 2)>>
    /\ ret.val = 1
    /\ dat[1].ellipsoid # dat[2].ellipsoid

---------------------------------------------------------------------------
(* C5: an assignment to a field of an Ellipsoid, Datum or                  *)
(* HelmertParameters raises FrozenInstanceError, and afterwards every      *)
(* field, derived property, equality and hash is as before.                *)

\* Derived properties, equality and hash are functions of the stored fields
\* and of the per-instance cache, so they are as before when those are.
C5_FrozenAssignment ==
    [][ret'.op = "setattr" =>
          /\ ret'.exc = "FrozenInstanceError"
          /\ ell' = ell
          /\ dat' = dat
          /\ cache' = cache]_vars

\* A rejected assignment, made after derived properties were read.
C5_Witness ==
    /\ ret.op = "setattr" /\ ret.exc = "FrozenInstanceError"
    /\ Cached(1, "e") /\ Cached(2, "urn")

---------------------------------------------------------------------------
(* C6: urn is "urn:ogc:def:ellipsoid:EPSG::" (Ellipsoid) or                *)
(* "urn:ogc:def:datum:EPSG::" (Datum) followed by code in decimal,         *)
(* unsigned, without leading zeros, and depends on no other field.         *)

DigitOf(c) ==
    CASE c = "0" -> 0 [] c = "1" -> 1 [] c = "2" -> 2 [] c = "3" -> 3 [] c = "4" -> 4
      [] c = "5" -> 5 [] c = "6" -> 6 [] c = "7" -> 7 [] c = "8" -> 8 [] c = "9" -> 9
      [] OTHER -> -1

RECURSIVE ParseDecimal(_, _)
ParseDecimal(digits, acc) ==
    IF digits = <<>> THEN acc
    ELSE ParseDecimal(Tail(digits), 10 * acc + DigitOf(Head(digits)))

ExpectedPrefix(kind) ==
    IF kind = "Ellipsoid"
    THEN <<"u","r","n",":","o","g","c",":","d","e","f",":",
           "e","l","l","i","p","s","o","i","d",":","E","P","S","G",":",":">>
    ELSE <<"u","r","n",":","o","g","c",":","d","e","f",":",
           "d","a","t","u","m",":","E","P","S","G",":",":">>

IsUrnOf(u, kind, code) ==
    LET n == Len(ExpectedPrefix(kind))
        digits == SubSeq(u, n + 1, Len(u))
    IN /\ Len(u) > n
       /\ SubSeq(u, 1, n) = ExpectedPrefix(kind)
       /\ \A k \in 1..Len(digits) : DigitOf(digits[k]) >= 0
       /\ Len(digits) > 1 => digits[1] # "0"
       /\ ParseDecimal(digits, 0) = code

C6_UrnFormat ==
    /\ (ret.op = "read" /\ ret.attr = "urn") =>
          ret.exc = NoExc /\ IsUrnOf(ret.val, ret.obj.kind, Stored(ret.obj).code)
    /\ \A i \in DOMAIN ell :
          Cached(i, "urn") => IsUrnOf(Val(i, "urn"), "Ellipsoid", ell[i].code)
    /\ \A i \in DOMAIN ell, j \in DOMAIN ell :
          (Cached(i, "urn") /\ Cached(j, "urn") /\ ell[i].code = ell[j].code) =>
              Val(i, "urn") = Val(j, "urn")

\* The urn of a Datum with code 100 read after the urns of both Ellipsoids.
C6_Witness ==
    /\ ret.op = "read" /\ ret.attr = "urn" /\ ret.obj.kind = "Datum"
    /\ Stored(ret.obj).code = 100
    /\ Cached(1, "urn") /\ Cached(2, "urn")

---------------------------------------------------------------------------
(* C9: Datum equality and hash take the Ellipsoid (and the optional        *)
(* HelmertParameters) by value: two Datums with the same name, code and    *)
(* remarks over distinct Ellipsoid instances with equal stored fields are  *)
(* equal and hash identically, also when only one Ellipsoid has cached     *)
(* derived properties.                                                     *)

DatumPair == <<Ref("Datum", 1), Ref("Datum", 2)>>

C9_DatumByValue ==
    \A x \in DOMAIN dat, y \in DOMAIN dat :
        ( /\ dat[x].name = dat[y].name
          /\ dat[x].code = dat[y].code
          /\ dat[x].remarks = dat[y].remarks
          /\ dat[x].to_wgs84 = dat[y].to_wgs84
          /\ ell[dat[x].ellipsoid] = ell[dat[y].ellipsoid] ) =>
            /\ Datum__eq__(x, y)
            /\ Datum__hash__(x) = Datum__hash__(y)
            /\ (ret.op = "eq" /\ ret.obj = DatumPair /\ x # y) => ret.val

\* Equal Datums over two Ellipsoid instances, one of them with a filled cache.
C9_Witness ==
    /\ dat[1].ellipsoid # dat[2].ellipsoid
    /\ ell[1] = ell[2]
    /\ Cached(1, "e") /\ cache[2] = EmptyDict
    /\ ret.op = "eq" /\ ret.obj = DatumPair /\ ret.val

---------------------------------------------------------------------------
(* C10: threads that read derived properties of one Ellipsoid at the same  *)
(* time, two threads making the first read of one property together        *)
(* included, each get what a sequential read returns (or raises), the      *)
(* cache holds only such values, and no stored field changes.              *)

\* The read of attr by a single thread on a fresh instance.
Sequential(attr) == cached_property_get(attr, ell[1], EmptyDict)

C10_ReadsAsSequential ==
    /\ \A t \in DOMAIN tret :
          /\ tret[t].op = "read" =>
                /\ tret[t].exc = Sequential(tret[t].attr).exc
                /\ tret[t].val = Sequential(tret[t].attr).val
          /\ tret[t].op = "field" => tret[t].val = ell[1][tret[t].attr]
    /\ \A attr \in Attrs :
          (tret # <<>> /\ Cached(1, attr)) =>
              /\ Sequential(attr).exc = NoExc
              /\ Val(1, attr) = Sequential(attr).val

\* C10: every concurrent read is as the sequential one, in every state, and
\* no step changes a stored field.
C10_ConcurrentReads == []C10_ReadsAsSequential /\ [][ell' = ell]_vars

\* Both threads missed the cache on ep2 and computed it: one has returned,
\* the other is about to store its own result.
C10_Witness ==
    /\ tret # <<>>
    /\ tret[1].op = "read" /\ tret[1].attr = "ep2" /\ tret[1].exc = NoExc
    /\ frames[2] # <<>>
    /\ Len(frames[2]) = 1 /\ Top(2).attr = "ep2" /\ Top(2).pc = "store"

---------------------------------------------------------------------------
(* binary64, the format of a Python float, for the values of the built-in  *)
(* constants.  Significands do not fit a 32-bit integer,                   *)
(* so a natural number is a little-endian sequence of limbs below Radix    *)
(* with no leading zero limb (zero is <<>>).                               *)

Radix == 4096         \* 2^RadixBits
RadixBits == 12
SigBits == 53         \* significand bits of binary64

Limb(x, i) == IF i <= Len(x) THEN x[i] ELSE 0

MaxOf(m, n) == IF m > n THEN m ELSE n

RECURSIVE BigNorm(_)
BigNorm(x) ==
    IF x = <<>> THEN <<>>
    ELSE IF x[Len(x)] = 0 THEN BigNorm(SubSeq(x, 1, Len(x) - 1))
    ELSE x

\* The number whose limb sums are x, plus the carry c.
RECURSIVE BigCarry(_, _)
BigCarry(x, c) ==
    IF x = <<>> THEN (IF c = 0 THEN <<>> ELSE <<c % Radix>> \o BigCarry(<<>>, c \div Radix))
    ELSE <<(Head(x) + c) % Radix>> \o BigCarry(Tail(x), (Head(x) + c) \div Radix)

BigFromNat(n) == BigCarry(<<>>, n)

BigAdd(x, y) ==
    BigCarry([i \in 1..MaxOf(Len(x), Len(y)) |-> Limb(x, i) + Limb(y, i)], 0)

\* Sum of x[i] * y[k + 1 - i] over the limbs i..Len(x) of x.
RECURSIVE BigConv(_, _, _, _)
BigConv(x, y, k, i) ==
    IF i > Len(x) \/ i > k THEN 0
    ELSE x[i] * Limb(y, k + 1 - i) + BigConv(x, y, k, i + 1)

BigMul(x, y) ==
    IF x = <<>> \/ y = <<>> THEN <<>>
    ELSE BigNorm(BigCarry([k \in 1..(Len(x) + Len(y) - 1) |-> BigConv(x, y, k, 1)], 0))

\* -1, 0 or 1 as x < y, x = y or x > y; i is the limb compared next.
RECURSIVE BigCmpFrom(_, _, _)
BigCmpFrom(x, y, i) ==
    IF i = 0 THEN 0
    ELSE IF x[i] < y[i] THEN -1
    ELSE IF x[i] > y[i] THEN 1
    ELSE BigCmpFrom(x, y, i - 1)

BigCmp(x, y) ==
    IF Len(x) < Len(y) THEN -1
    ELSE IF Len(x) > Len(y) THEN 1
    ELSE BigCmpFrom(x, y, Len(x))

\* x - y for x >= y; b is the borrow into limb i.
RECURSIVE BigSubFrom(_, _, _, _)
BigSubFrom(x, y, i, b) ==
    IF i > Len(x) THEN <<>>
    ELSE LET t == x[i] - Limb(y, i) - b
         IN IF t < 0 THEN <<t + Radix>> \o BigSubFrom(x, y, i + 1, 1)
            ELSE <<t>> \o BigSubFrom(x, y, i + 1, 0)

BigSub(x, y) == BigNorm(BigSubFrom(x, y, 1, 0))

\* x * 2^k
BigShl(x, k) ==
    IF x = <<>> THEN <<>>
    ELSE [i \in 1..(k \div RadixBits) |-> 0]
         \o BigCarry([i \in 1..Len(x) |-> x[i] * Pow2(k % RadixBits)], 0)

\* floor(x / 2^k)
BigShr(x, k) ==
    LET drop == k \div RadixBits
        r    == Pow2(k % RadixBits)
        y    == IF drop >= Len(x) THEN <<>> ELSE SubSeq(x, drop + 1, Len(x))
    IN BigNorm([i \in 1..Len(y) |-> (y[i] \div r) + (Limb(y, i + 1) % r) * (Radix \div r)])

BigBitLen(x) == IF x = <<>> THEN 0 ELSE RadixBits * (Len(x) - 1) + BitLen(x[Len(x)])

\* bit k of x (bit 0 is the lowest)
BigBit(x, k) == (Limb(x, k \div RadixBits + 1) \div Pow2(k % RadixBits)) % 2

BigOdd(x) == x # <<>> /\ x[1] % 2 = 1

\* The largest digit g of lo, lo + step, .., lo + 15 * step with g * d <= n.
BigDigitStep(n, d, lo, step) ==
    lo + step * Cardinality({j \in 1..15 : BigCmp(BigMul(d, <<lo + j * step>>), n) <= 0})

\* The largest limb g with g * d <= n, for n < Radix * d: one hexadecimal
\* digit of g at a time.
BigQuotientDigit(n, d) ==
    BigDigitStep(n, d, BigDigitStep(n, d, BigDigitStep(n, d, 0, 256), 16), 1)

\* Long division of n by d > 0, from limb i of n down: q holds the quotient
\* limbs found so far and r the running remainder.
RECURSIVE BigDivFrom(_, _, _, _, _)
BigDivFrom(n, d, i, q, r) ==
    IF i = 0 THEN [q |-> BigNorm(q), r |-> r]
    ELSE LET cur == BigNorm(<<n[i]>> \o r)
             g   == BigQuotientDigit(cur, d)
             rem == IF g = 0 THEN cur ELSE BigSub(cur, BigMul(d, <<g>>))
         IN IF BigCmp(rem, d) < 0 THEN BigDivFrom(n, d, i - 1, <<g>> \o q, rem)
            ELSE [q |-> <<>>, r |-> rem]      \* no digit below Radix: r >= d on entry

\* floor(n / d) and n mod d
BigDivMod(n, d) == BigDivFrom(n, d, Len(n), <<>>, <<>>)

\* floor(sqrt(n)) for n > 0 by Newton's iteration from s >= sqrt(n).
RECURSIVE BigSqrtFrom(_, _)
BigSqrtFrom(n, s) ==
    LET t == BigShr(BigAdd(s, BigDivMod(n, s).q), 1)
    IN IF BigCmp(t, s) >= 0 THEN s ELSE BigSqrtFrom(n, t)

BigSqrt(n) == IF n = <<>> THEN <<>> ELSE BigSqrtFrom(n, BigShl(<<1>>, (BigBitLen(n) + 1) \div 2))

\* The number with the decimal digits ds after the digits of acc.
RECURSIVE BigFromDigits(_, _)
BigFromDigits(ds, acc) ==
    IF ds = <<>> THEN acc
    ELSE BigFromDigits(Tail(ds), BigAdd(BigMul(acc, <<10>>), BigFromNat(Head(ds))))

RECURSIVE BigPow10(_)
BigPow10(k) == IF k = 0 THEN <<1>> ELSE BigMul(BigPow10(k - 1), <<10>>)

---------------------------------------------------------------------------
(* A binary64 value is sign * man * 2^exp with man of exactly SigBits bits *)
(* (0.0 has man = <<>> and exp = 0).  The exponent is not bounded: the     *)
(* values of the built-in constants and of their derived properties lie    *)
(* between 1e-3 and 1e7, far from overflow and from the subnormal range.   *)

Float64(sign, man, exp) == [sign |-> sign, man |-> man, exp |-> exp]

Zero64 == Float64(1, <<>>, 0)

\* sign * n * 2^e rounded to SigBits bits, to nearest, ties to even.
Round64(sign, n, e) ==
    LET len == BigBitLen(n)
        k   == len - SigBits
    IN IF n = <<>> THEN Zero64
       ELSE IF k <= 0 THEN Float64(sign, BigShl(n, -k), e + k)
       ELSE LET q    == BigShr(n, k)
                half == BigBit(n, k - 1) = 1
                rest == BigCmp(BigShl(BigShr(n, k - 1), k - 1), n) # 0
                up   == half /\ (rest \/ BigOdd(q))
                m    == IF up THEN BigAdd(q, <<1>>) ELSE q
            IN IF BigBitLen(m) > SigBits THEN Float64(sign, BigShr(m, 1), e + k + 1)
               ELSE Float64(sign, m, e + k)

Neg64(x) == IF x.man = <<>> THEN x ELSE [x EXCEPT !.sign = -x.sign]

F64Add(x, y) ==
    LET e  == IF x.exp < y.exp THEN x.exp ELSE y.exp
        nx == BigShl(x.man, x.exp - e)
        ny == BigShl(y.man, y.exp - e)
    IN IF x.man = <<>> THEN y
       ELSE IF y.man = <<>> THEN x
       ELSE IF x.sign = y.sign THEN Round64(x.sign, BigAdd(nx, ny), e)
       ELSE IF BigCmp(nx, ny) >= 0 THEN Round64(x.sign, BigSub(nx, ny), e)
       ELSE Round64(y.sign, BigSub(ny, nx), e)

F64Sub(x, y) == F64Add(x, Neg64(y))

F64Mul(x, y) == Round64(x.sign * y.sign, BigMul(x.man, y.man), x.exp + y.exp)

\* n / d (d > 0) times 2^e: the quotient is cut below its 56th bit and the
\* cut is recorded in one more bit, which the rounding reads.
RoundQuotient64(sign, n, d, e) ==
    LET k  == MaxOf(0, SigBits + 3 + BigBitLen(d) - BigBitLen(n))
        qr == BigDivMod(BigShl(n, k), d)
        q2 == BigShl(qr.q, 1)
    IN IF n = <<>> THEN Zero64
       ELSE Round64(sign, IF qr.r = <<>> THEN q2 ELSE BigAdd(q2, <<1>>), e - k - 1)

\* x / y for y # 0
F64Div(x, y) == RoundQuotient64(x.sign * y.sign, x.man, y.man, x.exp - y.exp)

\* x ** 0.5 for x >= 0: the binary64 nearest to the square root
F64Sqrt(x) ==
    LET k == IF (x.exp - (SigBits + 5)) % 2 = 0 THEN SigBits + 5 ELSE SigBits + 6
        n == BigShl(x.man, k)
        s == BigSqrt(n)
        s2 == BigShl(s, 1)
    IN IF x.man = <<>> THEN Zero64
       ELSE Round64(1, IF BigCmp(BigMul(s, s), n) = 0 THEN s2 ELSE BigAdd(s2, <<1>>),
                    (x.exp - k) \div 2 - 1)

\* -1, 0 or 1 as x < y, x = y or x > y, for x, y >= 0
F64CmpPos(x, y) ==
    LET e == IF x.exp < y.exp THEN x.exp ELSE y.exp
    IN BigCmp(BigShl(x.man, x.exp - e), BigShl(y.man, y.exp - e))

\* A float literal: the integer part, the digits after the point.
Literal64(sign, int, frac) ==
    RoundQuotient64(sign, BigFromDigits(frac, BigFromNat(int)), BigPow10(Len(frac)), 0)

One64 == Literal64(1, 1, <<>>)

Two64 == Literal64(1, 2, <<>>)

---------------------------------------------------------------------------
(* The bodies of the derived properties in binary64. *)

\* self.a * (1 - self.f)
Ellipsoid_b64(a, f) == Return(F64Mul(a, F64Sub(One64, f)))

\* 2 * self.f - self.f**2
Ellipsoid_e2_64(f) == Return(F64Sub(F64Mul(Two64, f), F64Mul(f, f)))

\* self.e2**0.5
Ellipsoid_e64(e2v) == Return(F64Sqrt(e2v))

\* A variant: self.e2 / (1 + self.e2), the first eccentricity from the second
Ellipsoid_ep2_64_plus(x, y) == Return(F64Div(x, F64Add(One64, y)))

\* self.e2 / (1 - self.e2): x is the first read of self.e2, y the second
Ellipsoid_ep2_64(x, y) ==
    LET d == F64Sub(One64, y)
    IN IF d.man = <<>> THEN Raise("ZeroDivisionError") ELSE Return(F64Div(x, d))

Body64(attr, self, args) ==
    CASE attr = "b"   -> Ellipsoid_b64(self.a, self.f)
      [] attr = "e2"  -> Ellipsoid_e2_64(self.f)
      [] attr = "e"   -> Ellipsoid_e64(args[1])
      [] attr = "ep2" -> Ellipsoid_ep2_64(args[1], args[2])
      [] attr = "urn" -> Ellipsoid_urn(self.code)

---------------------------------------------------------------------------
(* The built-in constants.  Each remarks text is cut to its first words.   *)

\* ellipsoid.py: the names bound at module level, in the order of the statements
EllipsoidStatements == <<"AIRY_1830", "CLARKE_1866", "GRS_1980", "INTERNATIONAL_1924", "WGS_84">>

\* datum.py: the names bound at module level, in the order of the statements
DatumStatements == <<"ED50", "ETRS89", "NAD27", "NAD83", "OSGB36", "WGS84">>

\* A variant: the inverse flattening 299.3249646 passed as the flattening
AIRY_1830_inverse_flattening ==
    [name |-> "Airy 1830", code |-> 7001,
     a |-> Literal64(1, 6377563, <<3,9,6>>),
     f |-> Literal64(1, 299, <<3,2,4,9,6,4,6>>),
     remarks |-> <<"Original definition is a=20923713, b=20853810 feet of 1796.">>]

AIRY_1830 ==
    [name |-> "Airy 1830", code |-> 7001,
     a |-> Literal64(1, 6377563, <<3,9,6>>),
     f |-> F64Div(One64, Literal64(1, 299, <<3,2,4,9,6,4,6>>)),
     remarks |-> <<"Original definition is a=20923713, b=20853810 feet of 1796.">>]

CLARKE_1866 ==
    [name |-> "Clarke 1866", code |-> 7008,
     a |-> Literal64(1, 6378206, <<4>>),
     f |-> F64Div(One64, Literal64(1, 294, <<9,7,8,6,9,8,2,1,3,8,9,8>>)),
     remarks |-> <<"Original definition a=20926062 and b=20855121 (British) feet.">>]

GRS_1980 ==
    [name |-> "GRS 1980", code |-> 7019,
     a |-> Literal64(1, 6378137, <<0>>),
     f |-> F64Div(One64, Literal64(1, 298, <<2,5,7,2,2,2,1,0,1>>)),
     remarks |-> <<"Adopted by IUGG 1979 Canberra.">>]

INTERNATIONAL_1924 ==
    [name |-> "International 1924", code |-> 7022,
     a |-> Literal64(1, 6378388, <<0>>),
     f |-> F64Div(One64, Literal64(1, 297, <<0>>)),
     remarks |-> <<"Adopted by IUGG 1924 in Madrid.">>]

WGS_84 ==
    [name |-> "WGS 84", code |-> 7030,
     a |-> Literal64(1, 6378137, <<0>>),
     f |-> F64Div(One64, Literal64(1, 298, <<2,5,7,2,2,3,5,6,3>>)),
     remarks |-> <<"1/f derived from four defining parameters semi-major axis">>]

\* The Ellipsoid(...) call of the statement that binds name.
EllipsoidCall(name) ==
    CASE name = "AIRY_1830"          -> AIRY_1830
      [] name = "CLARKE_1866"        -> CLARKE_1866
      [] name = "GRS_1980"           -> GRS_1980
      [] name = "INTERNATIONAL_1924" -> INTERNATIONAL_1924
      [] name = "WGS_84"             -> WGS_84

HelmertParameters(tx, ty, tz, rx, ry, rz, s) ==
    [tx |-> tx, ty |-> ty, tz |-> tz, rx |-> rx, ry |-> ry, rz |-> rz, s |-> s]

\* HelmertParameters(tx=0.0, ty=0.0, tz=0.0, rx=0.0, ry=0.0, rz=0.0, s=0.0)
IdentityHelmert == HelmertParameters(Zero64, Zero64, Zero64, Zero64, Zero64, Zero64, Zero64)

\* The Datum(...) calls.  The ellipsoid argument is a name of the namespace of
\* datum.py; the statement reads what the name is bound to when it runs.
ED50 ==
    [name |-> "European Datum 1950", code |-> 6230,
     ellipsoid |-> "INTERNATIONAL_1924",
     to_wgs84 |-> <<HelmertParameters(Literal64(-1, 87, <<0>>), Literal64(-1, 98, <<0>>),
                                      Literal64(-1, 121, <<0>>), Zero64, Zero64, Zero64,
                                      Zero64)>>,
     remarks |-> <<>>]

ETRS89 ==
    [name |-> "European Terrestrial Reference System 1989 ensemble", code |-> 6258,
     ellipsoid |-> "GRS_1980",
     to_wgs84 |-> <<IdentityHelmert>>,
     remarks |-> <<"Has been realized through ETRF89, ETRF90, ETRF91, ETRF92">>]

NAD27 ==
    [name |-> "North American Datum 1927", code |-> 6267,
     ellipsoid |-> "CLARKE_1866",
     to_wgs84 |-> <<HelmertParameters(Literal64(-1, 8, <<0>>), Literal64(1, 160, <<0>>),
                                      Literal64(1, 176, <<0>>), Zero64, Zero64, Zero64,
                                      Zero64)>>,
     remarks |-> <<"In United States (USA) and Canada, replaced by North American Datum 1983">>]

\* A variant: NAD83 defined on the ellipsoid of WGS84
NAD83_on_WGS_84 ==
    [name |-> "North American Datum 1983", code |-> 6269,
     ellipsoid |-> "WGS_84",
     to_wgs84 |-> <<IdentityHelmert>>,
     remarks |-> <<"Although the 1986 adjustment included connections to Greenland and Mexico">>]

NAD83 ==
    [name |-> "North American Datum 1983", code |-> 6269,
     ellipsoid |-> "GRS_1980",
     to_wgs84 |-> <<IdentityHelmert>>,
     remarks |-> <<"Although the 1986 adjustment included connections to Greenland and Mexico">>]

OSGB36 ==
    [name |-> "Ordnance Survey of Great Britain 1936", code |-> 6277,
     ellipsoid |-> "AIRY_1830",
     to_wgs84 |-> <<HelmertParameters(Literal64(1, 446, <<4,4,8>>),
                                      Literal64(-1, 125, <<1,5,7>>),
                                      Literal64(1, 542, <<0,6,0>>),
                                      Literal64(1, 0, <<1,5,0,2>>),
                                      Literal64(1, 0, <<2,4,7,0>>),
                                      Literal64(1, 0, <<8,4,2,1>>),
                                      Literal64(-1, 20, <<4,8,9,4>>))>>,
     remarks |-> <<"The average accuracy of OSTN compared to the old triangulation network">>]

\* A variant: WGS84 without a transformation to itself (to_wgs84 left None)
WGS84_untransformed ==
    [name |-> "World Geodetic System 1984 ensemble", code |-> 6326,
     ellipsoid |-> "WGS_84",
     to_wgs84 |-> <<>>,
     remarks |-> <<"EPSG::6326 has been the then current realization.">>]

WGS84 ==
    [name |-> "World Geodetic System 1984 ensemble", code |-> 6326,
     ellipsoid |-> "WGS_84",
     to_wgs84 |-> <<IdentityHelmert>>,
     remarks |-> <<"EPSG::6326 has been the then current realization.">>]

\* The Datum(...) call of the statement that binds name.
DatumCall(name) ==
    CASE name = "ED50"   -> ED50
      [] name = "ETRS89" -> ETRS89
      [] name = "NAD27"  -> NAD27
      [] name = "NAD83"  -> NAD83
      [] name = "OSGB36" -> OSGB36
      [] name = "WGS84"  -> WGS84

RECURSIVE Ellipsoid_value64(_, _)

\* What the body of a derived property returns on fresh fields, each nested read
\* returning what its own body returns.
Ellipsoid_value64(attr, self) ==
    Body64(attr, self, [n \in DOMAIN Deps(attr) |-> Ellipsoid_value64(Deps(attr)[n], self).val])

BuiltinEntry(self) ==
    [self |-> self, values |-> [attr \in NumAttrs |-> Ellipsoid_value64(attr, self)]]

\* The derived properties of each built-in Ellipsoid, by the position of its
\* statement in ellipsoid.py.
BuiltinValues ==
    [k \in DOMAIN EllipsoidStatements |-> BuiltinEntry(EllipsoidCall(EllipsoidStatements[k]))]

\* The body of attr as table holds it, when table has an entry made from these
\* fields and these values of the nested reads; the body itself otherwise.
LookupBody64(table, attr, self, args) ==
    LET ks == {k \in DOMAIN table :
                  /\ attr \in NumAttrs
                  /\ table[k].self = self
                  /\ \A n \in DOMAIN args : args[n] = table[k].values.e2.val}
    IN IF ks # {} THEN table[CHOOSE k \in ks : TRUE].values[attr]
       ELSE Body64(attr, self, args)

\* self.func(instance) in binary64
BodyOf64(attr, self, args) == LookupBody64(BuiltinValues, attr, self, args)

RECURSIVE cached_property_get64(_, _, _)
RECURSIVE ReadDeps64(_, _, _, _)

ReadDeps64(deps, self, d, args) ==
    IF deps = <<>> THEN [dict |-> d, exc |-> NoExc, args |-> args]
    ELSE LET r == cached_property_get64(Head(deps), self, d)
         IN IF r.exc # NoExc THEN [dict |-> r.dict, exc |-> r.exc, args |-> args]
            ELSE ReadDeps64(Tail(deps), self, r.dict, Append(args, r.val))

\* cache[self.attrname] = val; return val: out is what the body returned or raised
StoreAndReturn(attr, d, out) ==
    IF out.exc # NoExc THEN [dict |-> d, exc |-> out.exc, val |-> 0]
    ELSE [dict |-> CacheStore(d, attr, out.val), exc |-> NoExc, val |-> out.val]

\* val = self.func(instance): r is the outcome of the nested reads of the body
RunBody64(attr, self, r) ==
    IF r.exc # NoExc THEN [dict |-> r.dict, exc |-> r.exc, val |-> 0]
    ELSE StoreAndReturn(attr, r.dict, BodyOf64(attr, self, r.args))

\* cached_property.__get__ on binary64 fields
cached_property_get64(attr, self, d) ==
    IF d[attr] # <<>> THEN [dict |-> d, exc |-> NoExc, val |-> d[attr][1]]
    ELSE RunBody64(attr, self, ReadDeps64(Deps(attr), self, d, <<>>))

---------------------------------------------------------------------------
(* Loading the modules.  import runs the statements of a module once, top  *)
(* to bottom, and records the module in sys.modules before its first       *)
(* statement; datum.py begins by importing the names of ellipsoid.py.      *)
(* frames holds the state of the import system: sys.modules, the modules   *)
(* being executed, and the names bound in each module.                     *)

EllipsoidModule == "geodesy.ellipsoid"

DatumModule == "geodesy.datum"

Modules == {EllipsoidModule, DatumModule}

AllNames ==
    {EllipsoidStatements[k] : k \in DOMAIN EllipsoidStatements}
    \cup {DatumStatements[k] : k \in DOMAIN DatumStatements}

\* An unbound name is 0, a bound one the id of its instance.
Unbound == [n \in AllNames |-> 0]

ModuleFrame(m, pc) == [module |-> m, pc |-> pc]

Loader0 == [sys_modules |-> {}, stack |-> <<>>, globals |-> [m \in Modules |-> Unbound]]

Loading == frames.stack # <<>>

Executing(m, pc) == Loading /\ frames.stack[1] = ModuleFrame(m, pc)

Advance(st) == <<[Head(st) EXCEPT !.pc = @ + 1]>> \o Tail(st)

ImportOutcome(m, exc) == Outcome("import", <<>>, m, exc, 0)

\* An import system that executes m whether or not sys.modules holds it.
StartImport_again(m) ==
    [frames EXCEPT !.sys_modules = @ \cup {m},
                   !.stack = <<ModuleFrame(m, IF m = DatumModule THEN 0 ELSE 1)>> \o @]

\* The import system finds m in sys.modules, or starts executing it.
StartImport(m) ==
    IF m \in frames.sys_modules THEN frames
    ELSE [frames EXCEPT !.sys_modules = @ \cup {m},
                        !.stack = <<ModuleFrame(m, IF m = DatumModule THEN 0 ELSE 1)>> \o @]

\* import geodesy.ellipsoid or import geodesy.datum, by a caller
Import(m) ==
    /\ ~Loading
    /\ frames' = StartImport(m)
    /\ ret' = IF m \in frames.sys_modules THEN ImportOutcome(m, NoExc) ELSE ret
    /\ UNCHANGED <<ell, cache, dat, tret>>

\* NAME = Ellipsoid(...): the k-th statement of ellipsoid.py
CreateEllipsoid(k) ==
    /\ Executing(EllipsoidModule, k)
    /\ k \in DOMAIN EllipsoidStatements
    /\ ell' = Append(ell, EllipsoidCall(EllipsoidStatements[k]))
    /\ cache' = Append(cache, EmptyDict)
    /\ frames' = [frames EXCEPT !.stack = Advance(@),
                                !.globals[EllipsoidModule][EllipsoidStatements[k]] =
                                    Len(ell) + 1]
    /\ UNCHANGED <<dat, ret, tret>>

\* from geodesy.ellipsoid import (...): the first statement of datum.py.  The
\* module is executed first when it is not loaded; then the names are bound.
ImportFrom ==
    /\ Executing(DatumModule, 0)
    /\ frames' = IF EllipsoidModule \in frames.sys_modules
                 THEN [frames EXCEPT
                          !.stack = Advance(@),
                          !.globals[DatumModule] =
                              [n \in AllNames |->
                                  IF frames.globals[EllipsoidModule][n] # 0
                                  THEN frames.globals[EllipsoidModule][n] ELSE @[n]]]
                 ELSE StartImport(EllipsoidModule)
    /\ UNCHANGED <<ell, cache, dat, ret, tret>>

\* NAME = Datum(...): the k-th Datum statement of datum.py.  A name of an
\* Ellipsoid that is not bound raises NameError, and the import fails.
CreateDatum(k) ==
    /\ Executing(DatumModule, k)
    /\ k \in DOMAIN DatumStatements
    /\ IF frames.globals[DatumModule][DatumCall(DatumStatements[k]).ellipsoid] = 0
       THEN /\ frames' = [frames EXCEPT !.stack = <<>>,
                                        !.sys_modules = @ \ {DatumModule}]
            /\ ret' = ImportOutcome(DatumModule, "NameError")
            /\ UNCHANGED dat
       ELSE /\ dat' = Append(dat, [DatumCall(DatumStatements[k]) EXCEPT
                                     !.ellipsoid = frames.globals[DatumModule][@]])
            /\ frames' = [frames EXCEPT !.stack = Advance(@),
                                        !.globals[DatumModule][DatumStatements[k]] =
                                            Len(dat) + 1]
            /\ UNCHANGED ret
    /\ UNCHANGED <<ell, cache, tret>>

\* The end of a module: the import returns to the importing module or caller.
EndOfModule ==
    /\ \/ Executing(EllipsoidModule, Len(EllipsoidStatements) + 1)
       \/ Executing(DatumModule, Len(DatumStatements) + 1)
    /\ frames' = [frames EXCEPT !.stack = Tail(@)]
    /\ ret' = IF Len(frames.stack) = 1 THEN ImportOutcome(frames.stack[1].module, NoExc)
              ELSE ret
    /\ UNCHANGED <<ell, cache, dat, tret>>

\* The caller receives r, the outcome of a read of attr on Ellipsoid i.
ReturnRead(i, attr, r) ==
    /\ cache' = [cache EXCEPT ![i] = r.dict]
    /\ ret' = Outcome("read", Ref("Ellipsoid", i), attr, r.exc, r.val)
    /\ UNCHANGED <<ell, dat, frames, tret>>

\* ellipsoid.b, .e2, .e or .ep2 of a built-in
Read64(i, attr) == ReturnRead(i, attr, cached_property_get64(attr, ell[i], cache[i]))

\* x.name, a stored field
GetField(x, name) ==
    /\ ret' = Outcome("getattr", x, name, NoExc, Stored(x)[name])
    /\ UNCHANGED <<ell, cache, dat, frames, tret>>

\* The instance of the kind of x created next after x, the first after the last.
Neighbour(x) ==
    LET n == Cardinality({y \in Refs : y.kind = x.kind})
    IN Ref(x.kind, (x.id % n) + 1)

\* x.<field> = the value the field has in another built-in
SetBuiltinAttr(x) ==
    \E k \in 1..Len(FieldsOf(x.kind)) :
        SetAttr(x, FieldsOf(x.kind)[k], Stored(Neighbour(x))[FieldsOf(x.kind)[k]])

\* The caller reads the derived properties of one built-in at a time.
OthersUnread(i) == \A j \in DOMAIN ell \ {i} : cache[j] = EmptyDict

InitBuiltins ==
    /\ ell = <<>>
    /\ cache = <<>>
    /\ dat = <<>>
    /\ ret = NoOutcome
    /\ frames = Loader0
    /\ tret = <<>>

NextBuiltins ==
    \/ \E m \in Modules : Import(m)
    \/ \E k \in DOMAIN EllipsoidStatements : CreateEllipsoid(k)
    \/ ImportFrom
    \/ \E k \in DOMAIN DatumStatements : CreateDatum(k)
    \/ EndOfModule
    \/ ~Loading /\ \E i \in DOMAIN ell : \E attr \in NumAttrs :
           OthersUnread(i) /\ Read64(i, attr)
    \/ ~Loading /\ \E x \in Refs : \E k \in 1..Len(FieldsOf(x.kind)) :
           GetField(x, FieldsOf(x.kind)[k])
    \/ ~Loading /\ \E j \in DOMAIN dat : ReadDatumUrn(j)
    \/ ~Loading /\ \E x \in Refs : SetBuiltinAttr(x)
    \/ ~Loading /\ \E x, y \in Refs : Pair(x, y) /\ Compare(x, y)

SpecBuiltins == InitBuiltins /\ [][NextBuiltins]_vars

---------------------------------------------------------------------------
(* The built-in constants after loading. *)

Loaded(m) == ~Loading /\ m \in frames.sys_modules

\* The position in ellipsoid.py of the statement that binds name.
EllipsoidIndex(name) ==
    CHOOSE k \in DOMAIN EllipsoidStatements : EllipsoidStatements[k] = name

\* The k-th Datum as its statement creates it when every Ellipsoid exists.
DatumAsDefined(k) ==
    [DatumCall(DatumStatements[k]) EXCEPT !.ellipsoid = EllipsoidIndex(@)]

BuiltinsAsDefined ==
    /\ Len(ell) <= Len(EllipsoidStatements)
    /\ Len(dat) <= Len(DatumStatements)
    /\ \A i \in DOMAIN ell :
          /\ ell[i] = EllipsoidCall(EllipsoidStatements[i])
          /\ frames.globals[EllipsoidModule][EllipsoidStatements[i]] = i
    /\ \A j \in DOMAIN dat :
          /\ dat[j] = DatumAsDefined(j)
          /\ dat[j].ellipsoid \in DOMAIN ell
          /\ frames.globals[DatumModule][DatumStatements[j]] = j
    /\ Loaded(EllipsoidModule) => Len(ell) = Len(EllipsoidStatements)
    /\ Loaded(DatumModule) =>
          Len(ell) = Len(EllipsoidStatements) /\ Len(dat) = Len(DatumStatements)
    /\ ret.op = "import" => ret.exc = NoExc

\* An instance, once created, stays and keeps the fields it was created with.
CreatedOnce ==
    /\ Len(ell') >= Len(ell)
    /\ Len(dat') >= Len(dat)
    /\ \A i \in DOMAIN ell : ell'[i] = ell[i]
    /\ \A j \in DOMAIN dat : dat'[j] = dat[j]

\* C11: the five built-in Ellipsoids and six built-in Datums are created once,
\* by the import alone, each Ellipsoid before any Datum that refers to it; and
\* whatever a caller does afterwards (imports again, reads fields, reads derived
\* properties, compares, attempts assignments, which are rejected), every
\* built-in keeps the field values of its definition.
C11_BuiltinsInitialisedOnce == []BuiltinsAsDefined /\ [][CreatedOnce]_vars

\* Everything is loaded, a derived property has been read and cached, and an
\* assignment to a built-in has just been rejected.
C11_Witness ==
    /\ Loaded(DatumModule)
    /\ Len(dat) = Len(DatumStatements)
    /\ \E i \in DOMAIN ell : cache[i]["ep2"] # <<>>
    /\ ret.op = "setattr"
    /\ ret.exc = "FrozenInstanceError"

---------------------------------------------------------------------------
(* An eager Ellipsoid, as spec.md allows a reimplementation to be: the     *)
(* derived properties are computed when the instance is constructed and    *)
(* read from the instance afterwards.  The lazy Ellipsoid of the source    *)
(* and the eager one run the same calls side by side: ret is what the lazy *)
(* one returned or raised, tret holds the eager instances and what the     *)
(* eager one returned or raised.                                           *)

\* The derived properties in the order of their definitions.
AttrOrder == <<"b", "e2", "e", "ep2", "urn">>

RECURSIVE EagerCompute(_, _, _)

\* The derived properties of attrs computed one after the other into d.
EagerCompute(attrs, self, d) ==
    IF attrs = <<>> THEN [dict |-> d, exc |-> NoExc]
    ELSE LET r == cached_property_get(Head(attrs), self, d)
         IN IF r.exc # NoExc THEN [dict |-> d, exc |-> r.exc]
            ELSE EagerCompute(Tail(attrs), self, r.dict)

\* Construction of an eager Ellipsoid: an exception of a formula leaves the
\* constructor, and no instance is made.
Eager__init__(self) ==
    LET r == EagerCompute(AttrOrder, self, EmptyDict)
    IN IF r.exc # NoExc THEN [exc |-> r.exc, obj |-> <<>>]
       ELSE [exc |-> NoExc, obj |-> <<[fields |-> self, values |-> r.dict]>>]

\* The generated __eq__ and __hash__ of the eager class: the derived values
\* are no fields.
Eager__eq__(x, y) == AsTuple(x.fields, EllipsoidFields) = AsTuple(y.fields, EllipsoidFields)

Eager__hash__(x) ==
    TupleHash(<<StrHash(x.fields.name), NumHash(x.fields.code), NumHash(x.fields.a),
                NumHash(x.fields.f), OptStrHash(x.fields.remarks)>>, 1)

Eager0 == [obj |-> <<>>, ret |-> NoOutcome]

BothConstructed == ell # <<>> /\ tret.obj # <<>>

\* x = Ellipsoid("Test", 7030, a, f); y = Ellipsoid("Test", 7030, a, f), lazy and eager
NewBoth(a, f) ==
    LET self == [Ellipsoid0 EXCEPT !.a = a, !.f = f]
        e    == Eager__init__(self)
    IN /\ ell = <<>>
       /\ ell' = <<self, self>>
       /\ cache' = <<EmptyDict, EmptyDict>>
       /\ ret' = Outcome("new", Ref("Ellipsoid", 1), "", NoExc, 0)
       /\ tret' = [obj |-> e.obj \o e.obj,
                   ret |-> Outcome("new", Ref("Ellipsoid", 1), "", e.exc, 0)]
       /\ UNCHANGED <<dat, frames>>

\* x.b, x.e2, x.e, x.ep2 or x.urn
ReadBoth(attr) ==
    LET r == cached_property_get(attr, ell[1], cache[1])
    IN /\ BothConstructed
       /\ cache' = [cache EXCEPT ![1] = r.dict]
       /\ ret' = Outcome("read", Ref("Ellipsoid", 1), attr, r.exc, r.val)
       /\ tret' = [tret EXCEPT !.ret = Outcome("read", Ref("Ellipsoid", 1), attr, NoExc,
                                               tret.obj[1].values[attr][1])]
       /\ UNCHANGED <<ell, dat, frames>>

\* x.name, x.code, x.a, x.f or x.remarks
GetFieldBoth(name) ==
    /\ BothConstructed
    /\ ret' = Outcome("getattr", Ref("Ellipsoid", 1), name, NoExc, ell[1][name])
    /\ tret' = [tret EXCEPT !.ret = Outcome("getattr", Ref("Ellipsoid", 1), name, NoExc,
                                            tret.obj[1].fields[name])]
    /\ UNCHANGED <<ell, cache, dat, frames>>

\* x == y
CompareBoth ==
    /\ BothConstructed
    /\ ret' = Outcome("eq", <<Ref("Ellipsoid", 1), Ref("Ellipsoid", 2)>>, "", NoExc,
                      Ellipsoid__eq__(1, 2))
    /\ tret' = [tret EXCEPT !.ret = Outcome("eq", <<Ref("Ellipsoid", 1), Ref("Ellipsoid", 2)>>,
                                            "", NoExc, Eager__eq__(tret.obj[1], tret.obj[2]))]
    /\ UNCHANGED <<ell, cache, dat, frames>>

\* hash(x)
HashBoth ==
    /\ BothConstructed
    /\ ret' = Outcome("hash", Ref("Ellipsoid", 1), "", NoExc, Ellipsoid__hash__(1))
    /\ tret' = [tret EXCEPT !.ret = Outcome("hash", Ref("Ellipsoid", 1), "", NoExc,
                                            Eager__hash__(tret.obj[1]))]
    /\ UNCHANGED <<ell, cache, dat, frames>>

\* Semi-major axes of the side-by-side run.
EagerA == {One, 3 * MinNormal}

InitEager ==
    /\ ell = <<>>
    /\ cache = <<>>
    /\ dat = <<>>
    /\ ret = NoOutcome
    /\ frames = <<>>
    /\ tret = Eager0

NextEager ==
    \/ \E a \in EagerA, f \in NumF : NewBoth(a, f)
    \/ \E attr \in DOMAIN EmptyDict : ReadBoth(attr)
    \/ \E k \in DOMAIN EllipsoidFields : GetFieldBoth(EllipsoidFields[k])
    \/ CompareBoth
    \/ HashBoth

SpecEager == InitEager /\ [][NextEager]_vars

\* C12: for every a > 0 and 0 <= f < 1 and every sequence of constructions,
\* field reads, reads of derived properties, equality tests and hash calls, the
\* lazy Ellipsoid and the eager one return or raise the same.
C12_LazyEqualsEager == (\A i \in DOMAIN ell : Valid(i)) => ret = tret.ret

---------------------------------------------------------------------------
(* The published parameters of the built-in datums. *)

\* The instance a module-level name of datum.py is bound to.
DatumNamed(name) == dat[frames.globals[DatumModule][name]]

\* The instance a module-level name of ellipsoid.py is bound to.
EllipsoidNamed(name) == ell[frames.globals[EllipsoidModule][name]]

Published(code, ellipsoid, ellipsoid_code, to_wgs84) ==
    [code |-> code, ellipsoid |-> ellipsoid, ellipsoid_code |-> ellipsoid_code,
     to_wgs84 |-> to_wgs84]

\* EPSG code, ellipsoid and Helmert parameters to WGS 84 of each datum.
PublishedDatums ==
    [ED50   |-> Published(6230, "INTERNATIONAL_1924", 7022,
                    HelmertParameters(Literal64(-1, 87, <<>>), Literal64(-1, 98, <<>>),
                                      Literal64(-1, 121, <<>>), Zero64, Zero64, Zero64, Zero64)),
     ETRS89 |-> Published(6258, "GRS_1980", 7019, IdentityHelmert),
     NAD27  |-> Published(6267, "CLARKE_1866", 7008,
                    HelmertParameters(Literal64(-1, 8, <<>>), Literal64(1, 160, <<>>),
                                      Literal64(1, 176, <<>>), Zero64, Zero64, Zero64, Zero64)),
     NAD83  |-> Published(6269, "GRS_1980", 7019, IdentityHelmert),
     OSGB36 |-> Published(6277, "AIRY_1830", 7001,
                    HelmertParameters(Literal64(1, 446, <<4,4,8>>), Literal64(-1, 125, <<1,5,7>>),
                                      Literal64(1, 542, <<0,6>>), Literal64(1, 0, <<1,5,0,2>>),
                                      Literal64(1, 0, <<2,4,7>>), Literal64(1, 0, <<8,4,2,1>>),
                                      Literal64(-1, 20, <<4,8,9,4>>))),
     WGS84  |-> Published(6326, "WGS_84", 7030, IdentityHelmert)]

HasPublishedParameters(name) ==
    /\ frames.globals[DatumModule][name] \in DOMAIN dat
    /\ DatumNamed(name).code = PublishedDatums[name].code
    /\ DatumNamed(name).ellipsoid = frames.globals[EllipsoidModule][PublishedDatums[name].ellipsoid]
    /\ ell[DatumNamed(name).ellipsoid].code = PublishedDatums[name].ellipsoid_code
    /\ DatumNamed(name).to_wgs84 = <<PublishedDatums[name].to_wgs84>>

\* C13: once geodesy.datum is loaded, each built-in datum has its published
\* EPSG code, ellipsoid and seven Helmert parameters (WGS84 6326 on WGS_84,
\* ETRS89 6258 and NAD83 6269 on GRS_1980, all with zero parameters; NAD27 6267
\* on CLARKE_1866 with (-8, 160, 176); ED50 6230 on INTERNATIONAL_1924 with
\* (-87, -98, -121); OSGB36 6277 on AIRY_1830 with (446.448, -125.157, 542.060,
\* 0.1502, 0.2470, 0.8421, -20.4894)), and ETRS89 and NAD83 are two unequal
\* Datums on one and the same Ellipsoid, GRS 1980 (code 7019).
C13_PublishedDatumParameters ==
    Loaded(DatumModule) =>
        /\ \A k \in DOMAIN DatumStatements : HasPublishedParameters(DatumStatements[k])
        /\ frames.globals[DatumModule]["ETRS89"] # frames.globals[DatumModule]["NAD83"]
        /\ ~Datum__eq__(frames.globals[DatumModule]["ETRS89"],
                        frames.globals[DatumModule]["NAD83"])
        /\ DatumNamed("ETRS89").ellipsoid = DatumNamed("NAD83").ellipsoid
        /\ ell[DatumNamed("ETRS89").ellipsoid] = EllipsoidNamed("GRS_1980")
        /\ EllipsoidNamed("GRS_1980").code = 7019

\* Everything is loaded and a caller has just compared ETRS89 with NAD83.
C13_Witness ==
    /\ Loaded(DatumModule)
    /\ ret.op = "eq"
    /\ ret.obj = <<Ref("Datum", frames.globals[DatumModule]["ETRS89"]),
                   Ref("Datum", frames.globals[DatumModule]["NAD83"])>>
    /\ ret.val = FALSE

---------------------------------------------------------------------------
(* Well-formedness of the built-in constants. *)

\* x > 0 for a binary64 x
Positive64(x) == x.sign = 1 /\ x.man # <<>>

\* C14: the six built-in datums have pairwise distinct codes, and each has
\* Helmert parameters (to_wgs84 is not None) and an Ellipsoid whose semi-major
\* axis is positive.
C14_DatumsWellFormed ==
    /\ Loaded(DatumModule) => Len(dat) = 6
    /\ \A j \in DOMAIN dat :
          /\ \A k \in DOMAIN dat : j # k => dat[j].code # dat[k].code
          /\ dat[j].to_wgs84 # <<>>
          /\ dat[j].ellipsoid \in DOMAIN ell
          /\ Positive64(ell[dat[j].ellipsoid].a)

\* Everything is loaded and a caller has just read the to_wgs84 of the Datum
\* created last.
C14_Witness ==
    /\ Loaded(DatumModule)
    /\ ret.op = "getattr"
    /\ ret.obj = Ref("Datum", 6)
    /\ ret.attr = "to_wgs84"
    /\ Len(ret.val) = 1

\* x < y for two positive binary64
Less64(x, y) == F64CmpPos(x, y) < 0

\* What a read of attr on Ellipsoid i returned, when it has been read.
Read64Values(i, attr) == {cache[i][attr][n] : n \in DOMAIN cache[i][attr]}

BuiltinEllipsoidCodes == {7030, 7019, 7001, 7008, 7022}

\* C15: the five built-in ellipsoids have the pairwise distinct codes 7030,
\* 7019, 7001, 7008 and 7022, a > 0 and 0 < f < 1, and hence every value read
\* from them satisfies b < a, e2 > 0 and e < 1.
C15_EllipsoidsWellFormed ==
    /\ Loaded(EllipsoidModule) =>
          /\ Len(ell) = Cardinality(BuiltinEllipsoidCodes)
          /\ {ell[i].code : i \in DOMAIN ell} = BuiltinEllipsoidCodes
    /\ \A i \in DOMAIN ell :
          /\ \A k \in DOMAIN ell : i # k => ell[i].code # ell[k].code
          /\ Positive64(ell[i].a)
          /\ Positive64(ell[i].f)
          /\ Less64(ell[i].f, One64)
          /\ \A b \in Read64Values(i, "b") : Less64(b, ell[i].a)
          /\ \A x \in Read64Values(i, "e2") : Positive64(x)
          /\ \A e \in Read64Values(i, "e") : Less64(e, One64)

\* b, e2 and e of a built-in have been read, e last.
C15_Witness ==
    /\ Loaded(EllipsoidModule)
    /\ ret.op = "read"
    /\ ret.attr = "e"
    /\ ret.exc = NoExc
    /\ Read64Values(ret.obj.id, "b") # {}
    /\ Read64Values(ret.obj.id, "e2") # {}
    /\ Read64Values(ret.obj.id, "e") = {ret.val}

---------------------------------------------------------------------------
(* The derived parameters of WGS 84 against their published decimals. *)

\* The decimal int.frac as a fraction num / 10^scale.
Decimal(int, frac) == [num |-> BigFromDigits(frac, BigFromNat(int)), scale |-> Len(frac)]

BigAbsDiff(x, y) == IF BigCmp(x, y) >= 0 THEN BigSub(x, y) ELSE BigSub(y, x)

\* |x - d| <= 10^-digits * d, for a positive binary64 x below 2^53 and a decimal
\* d, in exact integer arithmetic: both sides times 10^(scale + digits) * 2^-exp.
WithinRelTol(x, d, digits) ==
    /\ x.sign = 1
    /\ x.exp <= 0
    /\ BigCmp(BigAbsDiff(BigMul(x.man, BigPow10(d.scale + digits)),
                         BigShl(BigMul(d.num, BigPow10(digits)), -x.exp)),
              BigShl(d.num, -x.exp)) <= 0

WGS_84_published ==
    [b   |-> Decimal(6356752, <<3,1,4,2,4,5,1,7,9>>),
     e2  |-> Decimal(0, <<0,0,6,6,9,4,3,7,9,9,9,0,1,4>>),
     e   |-> Decimal(0, <<0,8,1,8,1,9,1,9,0,8,4,2,6>>),
     ep2 |-> Decimal(0, <<0,0,6,7,3,9,4,9,6,7,4,2,2,8>>)]

\* The last operation read a numeric derived property of the built-in WGS_84.
ReadOfWGS_84 ==
    /\ NumRead
    /\ frames.globals[EllipsoidModule]["WGS_84"] = ret.obj.id

\* C16: every read of b, e2, e or ep2 of WGS_84 (a = 6378137.0,
\* f = 1/298.257223563) returns a value within relative tolerance 1e-9 of
\* 6356752.314245179, 0.00669437999014, 0.0818191908426 and 0.00673949674228.
C16_WGS_84_Values ==
    ReadOfWGS_84 =>
        /\ ret.exc = NoExc
        /\ WithinRelTol(ret.val, WGS_84_published[ret.attr], 9)

\* ep2 of WGS_84 has just been read, after e.
C16_Witness ==
    /\ ReadOfWGS_84
    /\ ret.attr = "ep2"
    /\ ret.exc = NoExc
    /\ cache[ret.obj.id]["e"] # <<>>

---------------------------------------------------------------------------
(* The cache of an instance. *)

\* v is what the formula of attr gives on the stored fields of Ellipsoid i.
IsFormulaOf(v, i, attr) ==
    LET a == ell[i].a
        f == ell[i].f
        x == FSub(FMul(2 * One, f), FMul(f, f))
    IN CASE attr = "b"   -> v = FMul(a, FSub(One, f))
         [] attr = "e2"  -> v = x
         [] attr = "e"   -> IsSqrtOf(v, x)
         [] attr = "ep2" -> FSub(One, x) # 0 /\ v = FDiv(x, FSub(One, x))
         [] attr = "urn" -> IsUrnOf(v, "Ellipsoid", ell[i].code)

CacheEmpty == \A i \in DOMAIN cache : cache[i] = EmptyDict

\* Every entry is the formula on the stored fields, and e and ep2 are never
\* cached without e2.
CacheConsistent ==
    \A i \in DOMAIN cache :
        /\ \A attr \in Attrs : Cached(i, attr) => IsFormulaOf(Val(i, attr), i, attr)
        /\ (Cached(i, "e") \/ Cached(i, "ep2")) => Cached(i, "e2")

\* A read returns the formula on the stored fields, whatever was read before,
\* and leaves its value, and e2 when it read e or ep2, in the cache.  The one
\* read that raises is ep2 on fields whose e2 is 1; it leaves e2 in the cache.
ReadIsFormula ==
    (ret.op = "read" /\ ret.obj.kind = "Ellipsoid") =>
        /\ ret.attr \in {"e", "ep2"} => Cached(ret.obj.id, "e2")
        /\ IF ret.exc = NoExc
           THEN /\ IsFormulaOf(ret.val, ret.obj.id, ret.attr)
                /\ Cached(ret.obj.id, ret.attr)
                /\ Val(ret.obj.id, ret.attr) = ret.val
           ELSE /\ ret.attr = "ep2"
                /\ IsFormulaOf(One, ret.obj.id, "e2")
                /\ ~Cached(ret.obj.id, "ep2")

\* An entry, once set, stays as it is.
CacheGrows ==
    /\ DOMAIN cache \subseteq DOMAIN cache'
    /\ \A i \in DOMAIN cache : \A attr \in Attrs :
          Cached(i, attr) => cache'[i][attr] = cache[i][attr]

---------------------------------------------------------------------------
(* Construction from any floats, in range or not. *)

\* The generated __init__: the arguments are assigned to the fields; the class
\* has no __post_init__ and nothing is checked.
Ellipsoid__init__(name, code, a, f, remarks) ==
    [exc |-> NoExc,
     rec |-> [name |-> name, code |-> code, a |-> a, f |-> f, remarks |-> remarks]]

\* x = Ellipsoid("Test", 7030, a, f)
New(a, f) ==
    LET r == Ellipsoid__init__("Test", 7030, a, f, <<>>)
    IN /\ ell = <<>>
       /\ ell' = IF r.exc = NoExc THEN <<r.rec>> ELSE ell
       /\ cache' = IF r.exc = NoExc THEN <<EmptyDict>> ELSE cache
       /\ ret' = Outcome("new", Ref("Ellipsoid", 1), "", r.exc, 0)
       /\ UNCHANGED <<dat, frames, tret>>

\* Semi-major axes: negative, zero, positive.
RangeA == {-One, 0, One}

\* Flattenings: negative, every float of [0, 1), 1, and above 1 with e2
\* positive, zero and negative.
RangeF == {-(One \div 4)} \cup NumF \cup {One, 3 * (One \div 2), 2 * One, 3 * One}

InitRange ==
    /\ ell = <<>>
    /\ cache = <<>>
    /\ dat = <<>>
    /\ ret = NoOutcome
    /\ frames = <<>>
    /\ tret = <<>>

NextRange ==
    \/ \E a \in RangeA, f \in RangeF : New(a, f)
    \/ ell # <<>> /\ \E attr \in Attrs : Read(1, attr)
    \/ ell # <<>> /\ \E k \in DOMAIN EllipsoidFields :
           GetField(Ref("Ellipsoid", 1), EllipsoidFields[k])

SpecRange == InitRange /\ [][NextRange]_vars

Constructed == ell # <<>>

\* Construction never raises, whatever a and f are.
NoValidation == (ret.op = "new" /\ ret.obj # <<>>) => (ret.exc = NoExc /\ Constructed)

\* With f = 1: ep2 raises ZeroDivisionError on every read and is never cached;
\* nothing else raises; b, e2, e and urn are a * 0, 1, 1 and the urn of the code.
OnlyEp2FailsAtOne ==
    (Constructed /\ ell[1].f = One) =>
        /\ ~Cached(1, "ep2")
        /\ (ret.op = "read" /\ ret.attr = "ep2") => ret.exc = "ZeroDivisionError"
        /\ ret.exc # NoExc => ret.op = "read" /\ ret.attr = "ep2"
        /\ Cached(1, "b") => Val(1, "b") = FMul(ell[1].a, 0)
        /\ Cached(1, "e2") => Val(1, "e2") = One
        /\ Cached(1, "e") => Val(1, "e") = One
        /\ Cached(1, "urn") => IsUrnOf(Val(1, "urn"), "Ellipsoid", ell[1].code)
        /\ (ret.op = "read" /\ ret.exc = NoExc) => ret.val = Val(1, ret.attr)

\* With f < 1 nothing raises ZeroDivisionError.
NoDivisionByZeroBelowOne ==
    (Constructed /\ ell[1].f < One) => ret.exc # "ZeroDivisionError"

\* The stored fields stay as constructed.
FieldsKept == Constructed => ell' = ell

\* C18: an Ellipsoid is constructed without error from any a and f (a <= 0,
\* f < 0, f >= 1 included); with f = 1 the one operation that fails is the read
\* of ep2, with ZeroDivisionError on every read and nothing cached, while the
\* stored fields and b, e2, e, urn are as without the failure; and with f < 1 no
\* read raises ZeroDivisionError.
C18_NoValidation ==
    [](NoValidation /\ OnlyEp2FailsAtOne /\ NoDivisionByZeroBelowOne) /\ [][FieldsKept]_vars

=============================================================================
